---- MODULE Spec2Model ----
(***************************************************************************)
(* Model of csrc/flashfftconv/conv1d/conv1d_blh.cu: the depthwise 1-D      *)
(* convolution conv1d_cuda_blh, its two CUDA kernels (conv1d_kernel and    *)
(* conv1d_kernel_k_3), the padding-aware sampler get_u and the host-side   *)
(* dispatcher that computes the launch geometry.                           *)
(*                                                                         *)
(* Arithmetic.  The source computes every size and offset in `uint`        *)
(* (32 bits).  A uint is modelled as a pair <<lo, hi>> of 16-bit limbs so   *)
(* that the full 32-bit width is kept; the operators U32Add, U32Sub and    *)
(* U32Mul wrap modulo 2^32 exactly as the hardware does.  Exact            *)
(* (mathematical) quantities, which the properties compare against, are    *)
(* four-limb numbers <<l0, l1, l2, l3>> (64 bits, the width of a pointer    *)
(* difference); no quantity of the model reaches 2^64.                     *)
(*                                                                         *)
(* Elements.  A tensor element is modelled by a small integer; all values  *)
(* the model produces are integers of magnitude below 256, which float16,  *)
(* bfloat16 and float32 all represent exactly and on which the fused       *)
(* multiply-add is exact.  Rounding is therefore not part of the model.    *)
(***************************************************************************)
EXTENDS Integers, Sequences, FiniteSets, TLC

\* const uint BX = 512;  threads per block along x (channel pairs)
BX == 512
\* const uint BY = 1;  (BY is a reserved word of TLA+)
BY_ == 1
\* const uint BZ = 1;
BZ == 1
\* const uint TILE_SIZE_Y = 4;  sequence positions per thread
TILE_SIZE_Y == 4
\* const uint TILE_SIZE_X = 2;  channel pairs per thread
TILE_SIZE_X == 2

(***************************************************************************)
(* 32-bit unsigned arithmetic on 16-bit limbs.                             *)
(***************************************************************************)
\* radix of a limb
W == 2^16

\* the uint holding the natural number n (n < 2^31)
U32(n) == <<n % W, (n \div W) % W>>

\* the natural number an uint holds, when it is below 2^31
IsSmall(a) == a[2] < 32768
ToInt(a) == a[2] * W + a[1]

\* a + b in uint arithmetic
U32Add(a, b) ==
    LET s0 == a[1] + b[1]
    IN  <<s0 % W, (a[2] + b[2] + (s0 \div W)) % W>>

\* a - b in uint arithmetic
U32Sub(a, b) ==
    LET d0 == a[1] - b[1]
        borrow == IF d0 < 0 THEN 1 ELSE 0
    IN  <<(d0 + W) % W, (a[2] - b[2] - borrow + 2 * W) % W>>

\* the exact product of two limbs, as <<lo, hi>>
Mul16(x, y) ==
    LET p0 == (x % 256) * y
        p1 == (x \div 256) * y
        s  == (p1 % 256) * 256 + p0
    IN  <<s % W, (p1 \div 256) + (s \div W)>>

\* a * b in uint arithmetic
U32Mul(a, b) ==
    LET m00 == Mul16(a[1], b[1])
        m01 == IF b[2] = 0 THEN 0 ELSE Mul16(a[1], b[2])[1]
        m10 == IF a[2] = 0 THEN 0 ELSE Mul16(a[2], b[1])[1]
    IN  <<m00[1], (m00[2] + m01 + m10) % W>>

\* a < b on uints
U32Lt(a, b) == a[2] < b[2] \/ (a[2] = b[2] /\ a[1] < b[1])

\* n < a, the int n (0 <= n < 2^31) being converted to uint for the comparison
IntLt(n, a) == IF IsSmall(a) THEN n < ToInt(a) ELSE TRUE

\* ceil(a * 1.0 / m) for a small positive divisor m, converted back to uint
U32CeilDiv(a, m) ==
    LET qh == a[2] \div m
        r1 == a[2] % m
        t  == r1 * W + a[1]
        ql == t \div m
        r2 == t % m
        q  == <<ql % W, qh>>
    IN  IF r2 = 0 THEN q ELSE U32Add(q, <<1, 0>>)

\* a / m in uint arithmetic for a small positive divisor m
U32Div(a, m) ==
    LET qh == a[2] \div m
        t  == (a[2] % m) * W + a[1]
    IN  <<(t \div m) % W, qh>>

(***************************************************************************)
(* Exact arithmetic on four 16-bit limbs (values below 2^64).              *)
(***************************************************************************)
\* the exact number n (a natural below 2^31)
X(n) == <<n % W, (n \div W) % W, 0, 0>>

\* the exact value of an uint
XOf(a) == <<a[1], a[2], 0, 0>>

XAdd(x, y) ==
    LET s1 == x[1] + y[1]
        s2 == x[2] + y[2] + (s1 \div W)
        s3 == x[3] + y[3] + (s2 \div W)
        s4 == x[4] + y[4] + (s3 \div W)
    IN  <<s1 % W, s2 % W, s3 % W, s4 % W>>

\* x times one limb m
XMulLimb(x, m) ==
    LET p1 == Mul16(x[1], m)
        p2 == Mul16(x[2], m)
        p3 == Mul16(x[3], m)
        p4 == Mul16(x[4], m)
        s2 == p2[1] + p1[2]
        s3 == p3[1] + p2[2] + (s2 \div W)
        s4 == p4[1] + p3[2] + (s3 \div W)
    IN  <<p1[1], s2 % W, s3 % W, s4 % W>>

\* x times an exact number whose two high limbs are zero
XMul(x, y) ==
    LET lo == XMulLimb(x, y[1])
        hi == IF y[2] = 0 THEN <<0, 0, 0, 0>> ELSE XMulLimb(x, y[2])
    IN  XAdd(lo, <<0, hi[1], hi[2], hi[3]>>)

XLt(x, y) ==
    \/ x[4] < y[4]
    \/ x[4] = y[4] /\ x[3] < y[3]
    \/ x[4] = y[4] /\ x[3] = y[3] /\ x[2] < y[2]
    \/ x[4] = y[4] /\ x[3] = y[3] /\ x[2] = y[2] /\ x[1] < y[1]

\* x mod m for a divisor 0 < m < 2^15
XMod(x, m) ==
    LET r4 == x[4] % m
        r3 == (r4 * W + x[3]) % m
        r2 == (r3 * W + x[2]) % m
    IN  (r2 * W + x[1]) % m

\* an exact number fits an uint
XFits32(x) == x[3] = 0 /\ x[4] = 0

\* the integer n (possibly negative, |n| < 2^31) reduced modulo 2^32
IntModU32(n) == <<n % W, (n \div W) % W>>

(***************************************************************************)
(* Bounds of the model and the calls it explores.                          *)
(***************************************************************************)
MaxB == 2
MaxL == 5
MaxD == 4
MaxK == 3
MaxP == 1
\* the tensors of an exhaustively explored call hold at most this many scalars
MaxNumel == 10
\* a grid axis or a coordinate axis longer than this is explored at its two ends only
EnumCap == 64

\* element representations (u.dtype()); Float64 stands for every unsupported one
DTypes == {"Float16", "BFloat16", "Float32", "Float64"}
Supported == {"Float16", "BFloat16", "Float32"}

\* fillings of the tensors: "example" is the worked example of the
\* specification (input row l holds l+1, weight all ones, bias zero),
\* "mixed" gives neighbouring elements different values
Patterns == {"example", "mixed"}

SmallShapes ==
    {s \in [B : 1..MaxB, L : 1..MaxL, d : 1..MaxD, K : 0..MaxK, padding : 0..MaxP] :
        s.B * s.L * s.d <= MaxNumel}

\* calls whose channel axis spans more than one tile of BX pairs and more
\* than one block of BX * TILE_SIZE_X pairs
WideShapes ==
    { [B |-> 1, L |-> 1, d |-> 1026, K |-> 1, padding |-> 0],
      [B |-> 1, L |-> 1, d |-> 2050, K |-> 1, padding |-> 0],
      [B |-> 1, L |-> 2, d |-> 2050, K |-> 3, padding |-> 1] }

\* calls whose tensors hold 2^32 packed pairs or more
HugeShapes ==
    { [B |-> 32769, L |-> 65536, d |-> 4, K |-> 1, padding |-> 0],
      [B |-> 32769, L |-> 65536, d |-> 4, K |-> 3, padding |-> 0] }

Calls ==
    {[shape |-> s, dtype |-> t, pattern |-> q] :
        s \in SmallShapes, t \in {"Float16", "Float32"}, q \in Patterns}
    \cup
    {[shape |-> s, dtype |-> t, pattern |-> "mixed"] :
        s \in SmallShapes, t \in DTypes \ {"Float16", "Float32"}}
    \cup
    {[shape |-> s, dtype |-> t, pattern |-> "mixed"] :
        s \in WideShapes \cup HugeShapes, t \in {"Float16", "Float32"}}

(***************************************************************************)
(* State.                                                                  *)
(***************************************************************************)
VARIABLES
    arg,        \* the call: sizes of u [B, L, d] and weight [K, d], padding, dtype, filling
    pc,         \* "call", "returned" (kernel possibly still running), "synced"
    out_size,   \* sizes <<b, l_out, d>> of the tensor torch::empty allocated
    launch,     \* the kernel launch: kernel, gridDims, accepted by the device, arguments
    ran,        \* blocks of the grid that have run
    reads,      \* every read a unit made: tensor, offset, and the coordinate it was made for
    writes,     \* every write a unit made to out: offset, value, unit, coordinate
    writes_alt, \* the writes of a second run of the same call on other tensor contents
    stdout,     \* what printf printed
    result      \* what the caller received: "pending", "tensor" (return out) or "error"

vars == <<arg, pc, out_size, launch, ran, reads, writes, writes_alt, stdout, result>>

(***************************************************************************)
(* Contents of the caller's tensors (contiguous, row-major).  run 1 is the *)
(* call under study; run 2 is the same call on tensors that differ from    *)
(* run 1 in batch 0 of the input and in the last channel of input, weight  *)
(* and bias.                                                               *)
(***************************************************************************)
\* number of scalars of u, weight and bias
NumelU == XMul(XMul(X(arg.shape.B), X(arg.shape.L)), X(arg.shape.d))
NumelW == X(arg.shape.K * arg.shape.d)
NumelBias == X(arg.shape.d)

\* scalar F (exact flat index) of u
MemU(run, F) ==
    LET base == IF arg.pattern = "example"
                THEN ((ToInt(F) \div arg.shape.d) % arg.shape.L) + 1
                ELSE 1 + XMod(F, 7)
        changed == \/ XLt(F, X(arg.shape.L * arg.shape.d))
                   \/ XMod(F, arg.shape.d) = arg.shape.d - 1
    IN  IF run = 2 /\ changed THEN base + 5 ELSE base

\* scalar f (flat index, an integer) of weight
MemW(run, f) ==
    LET base == IF arg.pattern = "example" THEN 1 ELSE 1 + (f % 3)
    IN  IF run = 2 /\ f % arg.shape.d = arg.shape.d - 1 THEN base + 1 ELSE base

\* scalar f of bias
MemBias(run, f) ==
    LET base == IF arg.pattern = "example" THEN 0 ELSE f % 5
    IN  IF run = 2 /\ f = arg.shape.d - 1 THEN base + 2 ELSE base

\* what a read outside the tensor yields
Poison == <<-1, -1>>

\* the packed pair at pair offset off (an uint) of a tensor of n scalars
InBounds(off, n) == XLt(XAdd(XAdd(XOf(off), XOf(off)), X(1)), n)

LoadU(run, off) ==
    IF InBounds(off, NumelU)
    THEN LET F == XAdd(XOf(off), XOf(off))
         IN  <<MemU(run, F), MemU(run, XAdd(F, X(1)))>>
    ELSE Poison

LoadW(run, off) ==
    IF InBounds(off, NumelW)
    THEN <<MemW(run, 2 * ToInt(off)), MemW(run, 2 * ToInt(off) + 1)>>
    ELSE Poison

LoadBias(run, off) ==
    IF InBounds(off, NumelBias)
    THEN <<MemBias(run, 2 * ToInt(off)), MemBias(run, 2 * ToInt(off) + 1)>>
    ELSE Poison

(***************************************************************************)
(* Device code.  `a` is the record of kernel arguments of the launch.      *)
(***************************************************************************)
\* __hfma2(a, b, c): lane-wise a * b + c
Hfma2(x, y, z) == <<x[1] * y[1] + z[1], x[2] * y[2] + z[2]>>

\* get_u with the lower test off by one: l + k <= p
get_u_pad_lower_inclusive(a, l, k) ==
    \/ U32Lt(U32Add(l, k), U32Add(a.padding, U32(1)))
    \/ U32Lt(U32Sub(a.L_eff, U32Add(a.padding, U32(1))), U32Add(l, k))

\* get_u without the upper test
get_u_pad_no_upper(a, l, k) == U32Lt(U32Add(l, k), a.padding)

\* get_u: l + k < p || l + k > L_eff - (p + 1)
get_u_pad(a, l, k) ==
    \/ U32Lt(U32Add(l, k), a.padding)
    \/ U32Lt(U32Sub(a.L_eff, U32Add(a.padding, U32(1))), U32Add(l, k))

\* get_u: b * L * D + (l + k - p) * D + d
get_u_off(a, l, b, k, d) ==
    U32Add(U32Add(U32Mul(U32Mul(b, a.L), a.D),
                  U32Mul(U32Sub(U32Add(l, k), a.padding), a.D)),
           d)

get_u(run, a, l, b, k, d) ==
    IF get_u_pad(a, l, k) THEN <<0, 0>> ELSE LoadU(run, get_u_off(a, l, b, k, d))

\* weights[k * D + d]
weights_off(a, k, d) == U32Add(U32Mul(k, a.D), d)

\* out[b * D * L_out + (l + t) * D + d]
out_off(a, b, l, d) ==
    U32Add(U32Add(U32Mul(U32Mul(b, a.D), a.L_out), U32Mul(l, a.D)), d)

\* _conv1d_k_3 with the third tap multiplied by weights[1 * D + d]
conv1d_k_3_value_reused_tap(run, a, b, l, d) ==
    LET s0 == LoadBias(run, d)
        s1 == Hfma2(get_u(run, a, l, b, U32(0), d), LoadW(run, weights_off(a, U32(0), d)), s0)
        s2 == Hfma2(get_u(run, a, l, b, U32(1), d), LoadW(run, weights_off(a, U32(1), d)), s1)
    IN  Hfma2(get_u(run, a, l, b, U32(2), d), LoadW(run, weights_off(a, U32(1), d)), s2)

\* _conv1d_k_3: the value stored for position l (= l + t of the caller)
conv1d_k_3_value(run, a, b, l, d) ==
    LET s0 == LoadBias(run, d)
        s1 == Hfma2(get_u(run, a, l, b, U32(0), d), LoadW(run, weights_off(a, U32(0), d)), s0)
        s2 == Hfma2(get_u(run, a, l, b, U32(1), d), LoadW(run, weights_off(a, U32(1), d)), s1)
    IN  Hfma2(get_u(run, a, l, b, U32(2), d), LoadW(run, weights_off(a, U32(2), d)), s2)

\* conv1d_kernel: for (int k = 0; k < K; k++) temp_sum = __hfma2(...)
RECURSIVE conv1d_loop(_, _, _, _, _, _, _)
conv1d_loop(run, a, b, l, d, k, temp_sum) ==
    IF IntLt(k, a.K)
    THEN conv1d_loop(run, a, b, l, d, k + 1,
             Hfma2(get_u(run, a, l, b, U32(k), d),
                   LoadW(run, weights_off(a, U32(k), d)), temp_sum))
    ELSE temp_sum

conv1d_value(run, a, b, l, d) == conv1d_loop(run, a, b, l, d, 0, LoadBias(run, d))

\* taps the kernel reads for one output element
Taps(kernel, a) == IF kernel = "conv1d_kernel_k_3" THEN 0..2 ELSE 0..(ToInt(a.K) - 1)

\* the iterations (threadIdx.x, i, t) of block blk that pass the bounds
\* checks, each with the coordinate (b, l + t, d) it works on
Units(a, blk) ==
    LET d_block == blk[1] * BX * TILE_SIZE_X
        l == blk[2] * BY_ * TILE_SIZE_Y + 0 * TILE_SIZE_Y
        b == blk[3] * BZ + 0
        b_ok == IntLt(b, a.B)
        D_wide == ~IsSmall(a.D)
        D_int == ToInt(a.D)
        lanes == IF b_ok
                 THEN UNION {{<<tx, i>> : tx \in {y \in 0..(BX - 1) :
                                             D_wide \/ d_block + y + i * BX < D_int}} :
                                i \in 0..(TILE_SIZE_X - 1)}
                 ELSE {}
        ts == {t \in 0..(TILE_SIZE_Y - 1) :
                  IntLt(l + t, U32Add(U32Sub(a.L_eff, a.K), U32(1)))}
    IN  {[who |-> <<blk, x[1], x[2], t>>, b |-> b, l |-> l + t,
          d |-> d_block + x[1] + x[2] * BX] : x \in lanes, t \in ts}

\* the store of one iteration
StoreOf(kernel, run, a, e) ==
    [off |-> out_off(a, U32(e.b), U32(e.l), U32(e.d)),
     val |-> IF kernel = "conv1d_kernel_k_3"
             THEN conv1d_k_3_value(run, a, U32(e.b), U32(e.l), U32(e.d))
             ELSE conv1d_value(run, a, U32(e.b), U32(e.l), U32(e.d)),
     who |-> e.who, b |-> e.b, l |-> e.l, d |-> e.d]

\* the loads of one iteration
LoadsOf(kernel, a, e) ==
    {[tensor |-> "bias", off |-> U32(e.d), b |-> e.b, l |-> e.l, k |-> 0, d |-> e.d]}
    \cup
    {[tensor |-> "weights", off |-> weights_off(a, U32(k), U32(e.d)),
      b |-> e.b, l |-> e.l, k |-> k, d |-> e.d] : k \in Taps(kernel, a)}
    \cup
    {[tensor |-> "u", off |-> get_u_off(a, U32(e.l), U32(e.b), U32(k), U32(e.d)),
      b |-> e.b, l |-> e.l, k |-> k, d |-> e.d] :
        k \in {j \in Taps(kernel, a) : ~get_u_pad(a, U32(e.l), U32(j))}}

(***************************************************************************)
(* Host code.                                                              *)
(***************************************************************************)
\* limits of the device on gridDim.y and gridDim.z; a launch outside them,
\* or with an empty grid, fails and runs no block
MaxGridDimYZ == 65535

GridAccepted(g) ==
    /\ g[1] # <<0, 0>> /\ g[2] # <<0, 0>> /\ g[3] # <<0, 0>>
    /\ g[2][2] = 0 /\ g[3][2] = 0
    /\ g[2][1] <= MaxGridDimYZ /\ g[3][1] <= MaxGridDimYZ

NoLaunch ==
    [kernel |-> "none", grid |-> <<U32(0), U32(0), U32(0)>>, accepted |-> FALSE,
     padding |-> U32(0), B |-> U32(0), L |-> U32(0), L_out |-> U32(0),
     L_eff |-> U32(0), D |-> U32(0), K |-> U32(0)]

\* the dispatcher with the final else branches launching the generic kernel
KernelFor_fallthrough(k, t) ==
    IF k = U32(3) /\ t \in {"BFloat16", "Float32"}
    THEN "conv1d_kernel_k_3"
    ELSE "conv1d_kernel"

\* the kernel the dispatcher picks for kernel width k and representation t
KernelFor(k, t) ==
    IF k = U32(3)
    THEN CASE t = "Float16"  -> "conv1d_kernel"
           [] t = "BFloat16" -> "conv1d_kernel_k_3"
           [] t = "Float32"  -> "conv1d_kernel_k_3"
           [] OTHER          -> "none"
    ELSE CASE t = "Float16"  -> "conv1d_kernel"
           [] t = "BFloat16" -> "conv1d_kernel"
           [] t = "Float32"  -> "conv1d_kernel"
           [] OTHER          -> "none"

\* l_out without the final + 1
l_out_of_dropped_one(l, padding, k) ==
    U32Sub(U32Add(l, U32Mul(U32(2), padding)), k)

\* uint l_out = (l + 2 * padding - k + 1)
l_out_of(l, padding, k) ==
    U32Add(U32Sub(U32Add(l, U32Mul(U32(2), padding)), k), U32(1))

\* conv1d_cuda_blh: sizes, geometry, allocation of out, launch; returns out
conv1d_cuda_blh ==
    /\ pc = "call"
    /\ LET b == U32(arg.shape.B)
           l == U32(arg.shape.L)
           d == U32(arg.shape.d)
           k == U32(arg.shape.K)
           padding == U32(arg.shape.padding)
           l_eff == U32Add(l, U32Mul(U32(2), padding))
           gridDims == <<U32CeilDiv(d, BX * TILE_SIZE_X * 2),
                         U32CeilDiv(U32Add(U32Sub(l_eff, k), U32(1)), BY_ * TILE_SIZE_Y),
                         U32CeilDiv(b, BZ)>>
           l_out == l_out_of(l, padding, k)
           kernel == KernelFor(k, arg.dtype)
       IN  /\ out_size' = <<b, l_out, d>>
           /\ IF kernel = "none"
              THEN /\ stdout' = Append(stdout, "Unsupported datatype\n")
                   /\ launch' = NoLaunch
              ELSE /\ stdout' = stdout
                   /\ launch' = [kernel |-> kernel, grid |-> gridDims,
                                 accepted |-> GridAccepted(gridDims),
                                 padding |-> padding, B |-> b, L |-> l,
                                 L_out |-> l_out, L_eff |-> l_eff,
                                 D |-> U32Div(d, 2), K |-> k]
    /\ result' = "tensor"
    /\ pc' = "returned"
    /\ UNCHANGED <<arg, ran, reads, writes, writes_alt>>

\* indices of a grid axis of n blocks that the model explores
SampleIdx(n) == IF n <= EnumCap THEN 0..(n - 1) ELSE {0, n - 1}

Blocks ==
    IF launch.accepted
    THEN SampleIdx(ToInt(launch.grid[1])) \X SampleIdx(ToInt(launch.grid[2]))
             \X SampleIdx(ToInt(launch.grid[3]))
    ELSE {}

\* every block of the grid is among Blocks
GridEnumerated ==
    launch.accepted =>
        \A i \in 1..3 : ToInt(launch.grid[i]) <= EnumCap

\* one block of the launched kernel runs all its threads.  The stores and
\* loads are logged as sets, so the order in which the threads of the block
\* and the blocks of the grid run does not show in the state.
RunBlock(blk) ==
    /\ pc = "returned"
    /\ blk \in Blocks \ ran
    /\ LET es == Units(launch, blk)
       IN  /\ writes' = writes \cup {StoreOf(launch.kernel, 1, launch, e) : e \in es}
           /\ writes_alt' = writes_alt \cup
                  {[off |-> w.off, val |-> w.val] :
                      w \in {StoreOf(launch.kernel, 2, launch, e) : e \in es}}
           /\ reads' = reads \cup UNION {LoadsOf(launch.kernel, launch, e) : e \in es}
    /\ ran' = ran \cup {blk}
    /\ UNCHANGED <<arg, pc, out_size, launch, stdout, result>>

\* the caller waits for the device: every block of the grid has finished
Synchronize ==
    /\ pc = "returned"
    /\ GridEnumerated
    /\ ran = Blocks
    /\ pc' = "synced"
    /\ UNCHANGED <<arg, out_size, launch, ran, reads, writes, writes_alt, stdout, result>>

Init ==
    /\ arg \in Calls
    /\ pc = "call"
    /\ out_size = <<U32(0), U32(0), U32(0)>>
    /\ launch = NoLaunch
    /\ ran = {}
    /\ reads = {}
    /\ writes = {}
    /\ writes_alt = {}
    /\ stdout = <<>>
    /\ result = "pending"

Next ==
    \/ conv1d_cuda_blh
    \/ \E blk \in Blocks : RunBlock(blk)
    \/ Synchronize

Spec == Init /\ [][Next]_vars

(***************************************************************************)
(* Quantities the properties are stated with: the exact (mathematical)     *)
(* sizes, coordinates and row-major offsets of the call.                   *)
(***************************************************************************)
\* L + 2p - K + 1 as an integer (negative when the kernel is wider than the padded input)
ExactLout == arg.shape.L + 2 * arg.shape.padding - arg.shape.K + 1

\* number of packed pairs of a row
Pairs == arg.shape.d \div 2

\* supported representation and even channel dimension
ValidCall == arg.dtype \in Supported /\ arg.shape.d % 2 = 0

\* indices of a coordinate axis of length n that the properties look at
ProbeIdx(n) == IF n <= EnumCap THEN 0..(n - 1) ELSE (0..3) \cup ((n - 4)..(n - 1))

\* output coordinates (b, l, pair)
Coords == ProbeIdx(arg.shape.B) \X ProbeIdx(ExactLout) \X (0..(Pairs - 1))

\* exact row-major pair offset of output coordinate (b, l, pair) in out [B, L_out, d]
OutIndex(c) ==
    XAdd(XMul(XAdd(XMul(X(c[1]), X(ExactLout)), X(c[2])), X(Pairs)), X(c[3]))

\* exact row-major pair offset of input coordinate (b, j, pair) in u [B, L, d]
InIndex(b, j, dp) ==
    XAdd(XMul(XAdd(XMul(X(b), X(arg.shape.L)), X(j)), X(Pairs)), X(dp))

\* the input explicitly zero-padded by p positions on both sides: scalar (b, j, ch)
Xpad(b, j, ch) ==
    IF arg.shape.padding <= j /\ j <= arg.shape.L + arg.shape.padding - 1
    THEN MemU(1, XAdd(XMul(XAdd(XMul(X(b), X(arg.shape.L)), X(j - arg.shape.padding)),
                           X(arg.shape.d)), X(ch)))
    ELSE 0

\* bias[ch] + sum over the first k taps of weight[k, ch] * xpad[b, l + k, ch]
RECURSIVE RefSum(_, _, _, _)
RefSum(b, l, ch, k) ==
    IF k = 0 THEN MemBias(1, ch)
    ELSE RefSum(b, l, ch, k - 1)
         + MemW(1, (k - 1) * arg.shape.d + ch) * Xpad(b, l + k - 1, ch)

\* the unpadded convolution of the explicitly padded input at (b, l, pair), both lanes
RefPair(c) ==
    <<RefSum(c[1], c[2], 2 * c[3], arg.shape.K),
      RefSum(c[1], c[2], 2 * c[3] + 1, arg.shape.K)>>

\* the uint holding an exact number that fits
Low32(x) == <<x[1], x[2]>>

StoredOffs == {w.off : w \in writes}

(***************************************************************************)
(* C1.  Zero-padding equivalence: for a supported representation and even  *)
(* D, every output element (b, l, d) holds bias[d] + sum_k weight[k, d] *   *)
(* xpad[b, l+k, d], xpad being the input explicitly zero-padded by p: no   *)
(* value other than that one is ever stored at the element's row-major     *)
(* place, and once the grid has finished that value has been stored.       *)
(***************************************************************************)
C1_PaddedConvolution ==
    ValidCall =>
        LET expected == {<<Low32(OutIndex(c)), RefPair(c)>> :
                            c \in {x \in Coords : XFits32(OutIndex(x))}}
            places == {e[1] : e \in expected}
            stored == {<<w.off, w.val>> : w \in writes}
        IN  /\ \A s \in stored : s[1] \in places => s \in expected
            /\ pc = "synced" =>
                  /\ \A c \in Coords : XFits32(OutIndex(c))
                  /\ expected \subseteq stored

(***************************************************************************)
(* C2.  Exactly-once coverage: for a supported representation and even D,  *)
(* no place of out is stored to by two different (block, thread, tile      *)
(* iteration) combinations, and once every block of the grid has finished  *)
(* the places stored to are exactly the row-major places of the            *)
(* coordinates b < B, l < L_out, pair < D/2.                               *)
(***************************************************************************)
C2_WrittenExactlyOnce ==
    ValidCall =>
        /\ Cardinality(StoredOffs) = Cardinality(writes)
        /\ pc = "synced" =>
              /\ \A c \in Coords : XFits32(OutIndex(c))
              /\ StoredOffs = {Low32(OutIndex(c)) : c \in Coords}

IsExample ==
    /\ arg.shape = [B |-> 1, L |-> 5, d |-> 2, K |-> 3, padding |-> 1]
    /\ arg.pattern = "example"
    /\ arg.dtype \in Supported

\* the values stored at pair offset n of out (row n of the example)
ValuesAt(n) == {w.val : w \in {x \in writes : x.off = U32(n)}}

C4_Original ==
    (IsExample /\ pc = "synced") =>
        /\ out_size = <<U32(1), U32(5), U32(2)>>
        /\ ValuesAt(0) = {<<3, 3>>}
        /\ ValuesAt(1) = {<<6, 6>>}
        /\ ValuesAt(4) = {<<7, 7>>}

(***************************************************************************)
(* C4 as amended: the same call gives L_out = 5, output[0] = [3,3]         *)
(* (0+1+2), output[1] = [6,6] (1+2+3) and output[4] = [9,9] (4+5+0); no    *)
(* other value is ever stored in those rows.                               *)
(***************************************************************************)
C4_WorkedExample ==
    IsExample =>
        /\ pc # "call" => out_size = <<U32(1), U32(5), U32(2)>>
        /\ ValuesAt(0) \subseteq {<<3, 3>>}
        /\ ValuesAt(1) \subseteq {<<6, 6>>}
        /\ ValuesAt(4) \subseteq {<<9, 9>>}
        /\ pc = "synced" =>
              /\ ValuesAt(0) = {<<3, 3>>}
              /\ ValuesAt(1) = {<<6, 6>>}
              /\ ValuesAt(4) = {<<9, 9>>}

C4_Witness == IsExample /\ pc = "synced" /\ Cardinality(writes) = 5

(***************************************************************************)
(* C5.  Noninterference across batch and channel: two runs of the same     *)
(* call that agree on input[b, *, d], weight[*, d] and bias[d] agree on    *)
(* output[b, *, d], whatever the other batches and channels hold.          *)
(***************************************************************************)
\* the two runs agree on the slice of batch b and channel ch
AgreeOn(b, ch) ==
    /\ \A j \in ProbeIdx(arg.shape.L) :
          LET F == XAdd(XMul(XAdd(XMul(X(b), X(arg.shape.L)), X(j)), X(arg.shape.d)), X(ch))
          IN  MemU(1, F) = MemU(2, F)
    /\ \A k \in 0..(arg.shape.K - 1) :
          MemW(1, k * arg.shape.d + ch) = MemW(2, k * arg.shape.d + ch)
    /\ MemBias(1, ch) = MemBias(2, ch)

C5_Noninterference ==
    ValidCall =>
        LET agreed == {<<Low32(OutIndex(c)), lane>> :
                          c \in {x \in Coords : XFits32(OutIndex(x))}, lane \in 1..2}
            keys == {q \in (Coords \X (1..2)) :
                        /\ XFits32(OutIndex(q[1]))
                        /\ AgreeOn(q[1][1], 2 * q[1][3] + q[2] - 1)}
            place == {<<Low32(OutIndex(q[1])), q[2]>> : q \in keys}
            lanes1 == {<<w.off, lane, w.val[lane]>> : w \in writes, lane \in 1..2}
            lanes2 == {<<w.off, lane, w.val[lane]>> : w \in writes_alt, lane \in 1..2}
        IN  {s \in lanes1 : <<s[1], s[2]>> \in place}
              = {s \in lanes2 : <<s[1], s[2]>> \in place}

(***************************************************************************)
(* C6.  For K = 3 the specialized kernel (bias, then taps 0, 1, 2          *)
(* unrolled) and the generic kernel (bias, then the loop over k) store     *)
(* identical values at identical offsets for identical input, padding and  *)
(* launch geometry; the grid that ran stored exactly those.                *)
(***************************************************************************)
C6_SpecializedEqualsGeneric ==
    (launch.accepted /\ launch.K = U32(3) /\ (pc = "synced" \/ ~GridEnumerated)) =>
        LET specialized ==
                UNION {{StoreOf("conv1d_kernel_k_3", 1, launch, e) : e \in Units(launch, blk)} :
                          blk \in ran}
            generic ==
                UNION {{StoreOf("conv1d_kernel", 1, launch, e) : e \in Units(launch, blk)} :
                          blk \in ran}
        IN  specialized = generic /\ writes = specialized

C6_Witness ==
    /\ pc = "synced"
    /\ launch.kernel = "conv1d_kernel_k_3"
    /\ arg.pattern = "mixed"
    /\ arg.shape.padding > 0
    /\ Cardinality(writes) >= 4

(***************************************************************************)
(* C7.  Unsupported representation.  Original statement: the call signals  *)
(* an unsupported-representation failure to the caller at dispatch time,   *)
(* launches no kernel and writes no output element.                        *)
(***************************************************************************)
C7_Original ==
    (arg.dtype \notin Supported /\ pc # "call") =>
        /\ result = "error"
        /\ launch.kernel = "none"
        /\ writes = {}

(***************************************************************************)
(* C7 as amended: for a representation that is none of the three supported *)
(* ones, for K = 3 and K # 3 alike, the call prints "Unsupported datatype" *)
(* and returns the allocated, unwritten output array to the caller as an   *)
(* ordinary result; no kernel is launched, no block runs, no element is    *)
(* read or written.                                                        *)
(***************************************************************************)
C7_UnsupportedRepresentation ==
    (arg.dtype \notin Supported /\ pc # "call") =>
        /\ stdout = <<"Unsupported datatype\n">>
        /\ result = "tensor"
        /\ launch.kernel = "none"
        /\ Blocks = {} /\ ran = {}
        /\ writes = {} /\ reads = {}

C7_Witness == arg.dtype \notin Supported /\ pc = "synced" /\ arg.shape.K = 3

(***************************************************************************)
(* C8.  Invalid shape: a call with an odd channel dimension is reported    *)
(* to the caller before any kernel is launched; no kernel runs and no      *)
(* output element is written.                                              *)
(***************************************************************************)
C8_InvalidShapeRejected ==
    (arg.shape.d % 2 = 1 /\ pc # "call") =>
        /\ result = "error"
        /\ launch.kernel = "none"
        /\ writes = {}

(***************************************************************************)
(* C9.  Every memory access of every unit is in bounds: accesses are made  *)
(* only for coordinates with pair < D/2, b < B and l < L_out; every store  *)
(* lies inside out; every input read is for a sequence index l + k - p     *)
(* with 0 <= l + k - p < L and lies inside u; every weight read is for a   *)
(* tap k < K and lies inside weight; every bias read lies inside bias.     *)
(***************************************************************************)
NumelOut == XMul(XMul(XOf(out_size[1]), XOf(out_size[2])), XOf(out_size[3]))

CoordInRange(r) ==
    /\ 0 <= r.d /\ r.d < Pairs
    /\ 0 <= r.b /\ r.b < arg.shape.B
    /\ 0 <= r.l /\ r.l < ExactLout

C9_AccessesInBounds ==
    /\ \A r \in reads :
          /\ CoordInRange(r)
          /\ r.tensor = "u" =>
                /\ 0 <= r.l + r.k - arg.shape.padding
                /\ r.l + r.k - arg.shape.padding < arg.shape.L
                /\ InBounds(r.off, NumelU)
          /\ r.tensor = "weights" =>
                /\ 0 <= r.k /\ r.k < arg.shape.K
                /\ InBounds(r.off, NumelW)
          /\ r.tensor = "bias" => InBounds(r.off, NumelBias)
    /\ \A w \in writes :
          /\ CoordInRange(w)
          /\ InBounds(w.off, NumelOut)

C9_Witness ==
    /\ pc = "synced"
    /\ arg.shape.padding > 0
    /\ arg.shape.K >= 2
    /\ \E r \in reads : r.tensor = "u" /\ r.l + r.k - arg.shape.padding = arg.shape.L - 1
    /\ \E r \in reads : r.tensor = "u" /\ r.l + r.k - arg.shape.padding = 0
    /\ Cardinality({r \in reads : r.tensor = "u"})
           < arg.shape.K * Cardinality(writes)

(***************************************************************************)
(* C10.  The flat offsets the kernels compute in 32-bit unsigned           *)
(* arithmetic equal the exact row-major offsets of the coordinates they    *)
(* are computed for (no wraparound modulo 2^32).                           *)
(***************************************************************************)
C10_OffsetsExact ==
    /\ \A r \in reads :
          /\ r.tensor = "u" =>
                XOf(r.off) = InIndex(r.b, r.l + r.k - arg.shape.padding, r.d)
          /\ r.tensor = "weights" => XOf(r.off) = X(r.k * Pairs + r.d)
          /\ r.tensor = "bias" => XOf(r.off) = X(r.d)
    /\ \A w \in writes : XOf(w.off) = OutIndex(<<w.b, w.l, w.d>>)

(***************************************************************************)
(* C1, C2 and C5 on the calls whose tensors hold fewer than 2^32 scalars,  *)
(* where no offset of C10 wraps.                                           *)
(***************************************************************************)
WithinUint == XFits32(NumelU) /\ XFits32(NumelOut)

\* C1 restricted to tensors of fewer than 2^32 scalars
C1_WithinUint == WithinUint => C1_PaddedConvolution

\* C2 restricted to tensors of fewer than 2^32 scalars
C2_WithinUint == WithinUint => C2_WrittenExactlyOnce

\* C5 restricted to tensors of fewer than 2^32 scalars
C5_WithinUint == WithinUint => C5_Noninterference

====
